---- MODULE Spec2Model ----
(***************************************************************************)
(* Model of the chat backend in src/main.py (FastAPI app over two tables,  *)
(* src/models.py, reached through the session factory of src/db.py).       *)
(*                                                                         *)
(* Strings that the code inspects character by character (biz_id,          *)
(* session_id, the composite key) are sequences of characters; a character *)
(* is a TLA+ string.  Two characters stand for code points outside ASCII:  *)
(*   "U+0130"  LATIN CAPITAL LETTER I WITH DOT ABOVE: str.isalnum() is     *)
(*             True, str.lower() yields the two code points "i", "U+0307"  *)
(*   "U+0307"  COMBINING DOT ABOVE: str.isalnum() is False                 *)
(*                                                                         *)
(* POST /chat is `async def` and runs on the event loop; its only await is *)
(* at main.py:179.  Everything before it runs without yielding, so the     *)
(* handler is one action up to the point where it stops.                   *)
(***************************************************************************)
EXTENDS Integers, Sequences, FiniteSets, TLC

VARIABLES
    chat_sessions,          \* table chat_sessions: id -> name (models.py:6-16)
    chat_messages,          \* table chat_messages: set of rows (models.py:18-35)
    BUSINESS_CONTEXT_CACHE, \* module global read at main.py:146
    SYSTEM_PROMPT_CACHE,    \* module global read at main.py:70
    handled,                \* the request handled last: its locals, the exception that
                            \* left the handler and the line that raised it, its reply
    appended,               \* history: the rows added, in order, with the (tenant, session) pair of the adding turn
    first_name,             \* history: per session key, the first non-empty name a turn supplied
    biz_in,                 \* normaliser harness: the input string
    norm_once,              \* normaliser harness: sanitize_biz_id(biz_in)
    norm_twice,             \* normaliser harness: sanitize_biz_id(norm_once)
    norm_pc                 \* normaliser harness: "input", "once", "twice"

vars == <<chat_sessions, chat_messages, BUSINESS_CONTEXT_CACHE, SYSTEM_PROMPT_CACHE,
          handled, appended, first_name, biz_in, norm_once, norm_twice, norm_pc>>

dbvars == <<chat_sessions, chat_messages, BUSINESS_CONTEXT_CACHE, SYSTEM_PROMPT_CACHE,
            handled, appended, first_name>>

normvars == <<biz_in, norm_once, norm_twice, norm_pc>>

----------------------------------------------------------------------------
(* Bounds *)

\* rows the chat_messages table may hold: a chat request is taken while it holds fewer
MaxRows == 7

\* length of the strings given to the normaliser harness
MaxLen == 2

----------------------------------------------------------------------------
(* Python values *)

\* None
PyNone == "<None>"

\* a module-level name that no executed statement binds; reading it raises NameError
Unbound == "<unbound>"

\* bool(x) for x a str or None
Truthy(x) == x # PyNone /\ x # ""

Min(a, b) == IF a <= b THEN a ELSE b

----------------------------------------------------------------------------
(* Characters *)

LowerLetters == {"a", "i", "s", "d", "e", "f", "u", "l", "t"}

UpperLetters == {"A", "U+0130"}

Digits == {"7"}

\* str.isalnum() of one character
IsAlnum(c) == c \in LowerLetters \cup UpperLetters \cup Digits

\* str.lower() of one character, as the sequence of characters it yields
LowerChar(c) ==
    CASE c = "A"      -> <<"a">>
      [] c = "U+0130" -> <<"i", "U+0307">>
      [] OTHER        -> <<c>>

\* str.lower() of a string
RECURSIVE Lower(_)
Lower(str) == IF str = <<>> THEN <<>> ELSE LowerChar(Head(str)) \o Lower(Tail(str))

\* the literal "default"
DEFAULT == <<"d", "e", "f", "a", "u", "l", "t">>

\* faulty variant: lower-cases but drops no character
SanitizeKeepsAll(biz_id) ==
    LET low == Lower(biz_id) IN IF low = <<>> THEN DEFAULT ELSE low

\* "".join(c for c in (biz_id or "") if c.isalnum() or c in ("-", "_")).lower() or "default"
sanitize_biz_id(biz_id) ==
    LET kept == SelectSeq(biz_id, LAMBDA c : IsAlnum(c) \/ c \in {"-", "_"})
        low  == Lower(kept)
    IN  IF low = <<>> THEN DEFAULT ELSE low

\* f"{safe_biz}:{session_id}"
effective_session_id(safe_biz, session_id) == safe_biz \o <<":">> \o session_id

----------------------------------------------------------------------------
(* Request inputs *)

\* (biz_id, session_id) of the POST /chat requests: a session_id holding ':'
\* next to a biz_id holding ':'
ChatIds ==
    { << <<"a">>,           <<"s", ":", "s">> >>,
      << <<"a", ":", "s">>, <<"s">> >> }

\* (biz_id, session_id) of the GET /history requests: the same two sessions,
\* the first under another spelling of its tenant
HistoryIds ==
    { << <<"A">>,           <<"s", ":", "s">> >>,
      << <<"a", ":", "s">>, <<"s">> >> }

\* ChatRequest.text
Texts == {"Hello"}

\* ChatRequest.name: absent, empty, or one of two names
Names == {PyNone, "", "Ann", "Bob"}

\* characters of the strings given to the normaliser harness
Alphabet == {"a", "A", "7", "-", "_", "!", " ", ":", "U+0130", "U+0307"}

\* strings over Alphabet of length at most n
RECURSIVE StringsUpTo(_)
StringsUpTo(n) ==
    IF n = 0 THEN {<<>>}
    ELSE LET shorter == StringsUpTo(n - 1)
         IN  shorter \cup {Append(str, c) : str \in shorter, c \in Alphabet}

----------------------------------------------------------------------------
(* The two tables *)

\* .limit(6)
LIMIT == 6

\* faulty variant: a name in the request always replaces the stored one
BackfillOverwrites(stored, supplied) == IF Truthy(supplied) THEN supplied ELSE stored

\* if body.name and not s.name: s.name = body.name
BackfillName(stored, supplied) ==
    IF Truthy(supplied) /\ ~Truthy(stored) THEN supplied ELSE stored

\* s = db.get(ChatSession, id); if not s: add ChatSession(id, name) else backfill; commit
LoadOrCreateSession(sessions, id, name) ==
    IF id \notin DOMAIN sessions
    THEN sessions @@ (id :> name)
    ELSE [sessions EXCEPT ![id] = BackfillName(@, name)]

\* the autoincrement primary key of the next row
NextId(rows) ==
    IF rows = {} THEN 1
    ELSE (CHOOSE i \in {m.id : m \in rows} : \A m \in rows : m.id <= i) + 1

\* db.add(ChatMessage(session_id, role, content)); db.commit()
AddMessage(rows, session_id, role, content) ==
    rows \cup {[id |-> NextId(rows), session_id |-> session_id,
                role |-> role, content |-> content]}

\* .filter(ChatMessage.session_id == session_id)
FilterBySession(rows, session_id) == {m \in rows : m.session_id = session_id}

\* .order_by(ChatMessage.id.desc())
RECURSIVE OrderByIdDesc(_)
OrderByIdDesc(rows) ==
    IF rows = {} THEN <<>>
    ELSE LET top == CHOOSE m \in rows : \A n \in rows : n.id <= m.id
         IN  <<top>> \o OrderByIdDesc(rows \ {top})

\* .order_by(ChatMessage.id.asc())
RECURSIVE OrderByIdAsc(_)
OrderByIdAsc(rows) ==
    IF rows = {} THEN <<>>
    ELSE LET low == CHOOSE m \in rows : \A n \in rows : m.id <= n.id
         IN  <<low>> \o OrderByIdAsc(rows \ {low})

\* .limit(n)
Limit(seq, n) == SubSeq(seq, 1, Min(n, Len(seq)))

\* [::-1]
Reverse(seq) == [i \in 1..Len(seq) |-> seq[Len(seq) + 1 - i]]

\* faulty variant: the page is not reversed
LastMsgsNotReversed(rows, session_id) ==
    Limit(OrderByIdDesc(FilterBySession(rows, session_id)), LIMIT)

\* last_msgs = query.filter(...).order_by(id.desc()).limit(6).all()[::-1]
LastMsgs(rows, session_id) ==
    Reverse(Limit(OrderByIdDesc(FilterBySession(rows, session_id)), LIMIT))

\* [{"role": m.role, "text": m.content} for m in msgs]
RoleText(seq) == [i \in 1..Len(seq) |-> [role |-> seq[i].role, text |-> seq[i].content]]

----------------------------------------------------------------------------
(* Initial state: empty tables (Base.metadata.create_all on a fresh app.db). *)
(* The only statements that would bind BUSINESS_CONTEXT_CACHE and            *)
(* SYSTEM_PROMPT_CACHE are main.py:66-67; they sit inside                    *)
(* load_business_context after its last return, so they never run and would  *)
(* bind locals if they did.  Neither name is ever bound at module level.     *)

InitDb ==
    /\ chat_sessions = <<>>
    /\ chat_messages = {}
    /\ BUSINESS_CONTEXT_CACHE = Unbound
    /\ SYSTEM_PROMPT_CACHE = Unbound
    /\ handled = [op |-> "none"]
    /\ appended = <<>>
    /\ first_name = <<>>

Init ==
    /\ InitDb
    /\ biz_in = <<>>
    /\ norm_once = <<>>
    /\ norm_twice = <<>>
    /\ norm_pc = "unused"

----------------------------------------------------------------------------
(* POST /chat, main.py:116-201 *)

\* history variable first_name: the first non-empty name supplied on a key
NoteName(names, id, name) ==
    IF Truthy(name) /\ id \notin DOMAIN names THEN names @@ (id :> name) ELSE names

\* a key with no row in chat_sessions: db.get returns None
Absent == "<absent>"

\* s.name as db.get(ChatSession, id) loads it
LoadedName(sessions, id) == IF id \in DOMAIN sessions THEN sessions[id] ELSE Absent

\* The handler from its entry to the statement at which it stops.  Steps 1-3
\* (main.py:118-143) run; step 4 reads BUSINESS_CONTEXT_CACHE (main.py:146),
\* which is unbound, so NameError leaves the handler there: the user row is
\* committed, main.py:151-201 (prompt, generation call, reply row, return) are
\* not reached, and the request has no reply.
Chat(biz_id, session_id, text, name) ==
    /\ Cardinality(chat_messages) < MaxRows
    /\ BUSINESS_CONTEXT_CACHE = Unbound
    /\ LET safe_biz  == sanitize_biz_id(biz_id)
           id        == effective_session_id(safe_biz, session_id)
           rows      == AddMessage(chat_messages, id, "user", text)
       IN  /\ chat_sessions' = LoadOrCreateSession(chat_sessions, id, name)
           /\ chat_messages' = rows
           /\ handled' = [op |-> "chat", biz_id |-> biz_id, session_id |-> session_id,
                          text |-> text, name |-> name, safe_biz |-> safe_biz,
                          effective_session_id |-> id,
                          loaded_name |-> LoadedName(chat_sessions, id),
                          user_id |-> NextId(chat_messages),
                          last_msgs |-> LastMsgs(rows, id),
                          raised |-> "NameError", line |-> 146, reply |-> PyNone]
           /\ appended' = Append(appended, [pair |-> <<safe_biz, session_id>>,
                                            role |-> "user", text |-> text])
           /\ first_name' = NoteName(first_name, id, name)
    /\ UNCHANGED <<BUSINESS_CONTEXT_CACHE, SYSTEM_PROMPT_CACHE>>
    /\ UNCHANGED normvars

\* The same handler when the commit of the user row (main.py:134) raises: the
\* session commit of step 1 has happened, the exception is not caught, no row
\* is added.
ChatUserWriteFails(biz_id, session_id, text, name) ==
    /\ LET safe_biz  == sanitize_biz_id(biz_id)
           id        == effective_session_id(safe_biz, session_id)
       IN  /\ chat_sessions' = LoadOrCreateSession(chat_sessions, id, name)
           /\ handled' = [op |-> "chat", biz_id |-> biz_id, session_id |-> session_id,
                          text |-> text, name |-> name, safe_biz |-> safe_biz,
                          effective_session_id |-> id,
                          loaded_name |-> LoadedName(chat_sessions, id),
                          user_id |-> 0,
                          last_msgs |-> <<>>,
                          raised |-> "OperationalError", line |-> 134, reply |-> PyNone]
           /\ first_name' = NoteName(first_name, id, name)
    /\ UNCHANGED <<chat_messages, appended, BUSINESS_CONTEXT_CACHE, SYSTEM_PROMPT_CACHE>>
    /\ UNCHANGED normvars

----------------------------------------------------------------------------
(* GET /history, main.py:204-220 *)

History(biz_id, session_id) ==
    /\ LET safe_biz == sanitize_biz_id(biz_id)
           id       == effective_session_id(safe_biz, session_id)
           msgs     == OrderByIdAsc(FilterBySession(chat_messages, id))
       IN  handled' = [op |-> "history", biz_id |-> biz_id, session_id |-> session_id,
                       effective_session_id |-> id, messages |-> RoleText(msgs)]
    /\ UNCHANGED <<chat_sessions, chat_messages, BUSINESS_CONTEXT_CACHE,
                   SYSTEM_PROMPT_CACHE, appended, first_name>>
    /\ UNCHANGED normvars

Next ==
    \/ \E r \in ChatIds, text \in Texts, name \in Names : Chat(r[1], r[2], text, name)
    \/ \E r \in ChatIds, text \in Texts, name \in Names :
          ChatUserWriteFails(r[1], r[2], text, name)
    \/ \E r \in HistoryIds : History(r[1], r[2])

Spec == Init /\ [][Next]_vars

----------------------------------------------------------------------------
(* The normaliser alone: sanitize_biz_id applied to a string, then to its    *)
(* own result.                                                               *)

InitSanitize ==
    /\ InitDb
    /\ biz_in \in StringsUpTo(MaxLen)
    /\ norm_once = <<>>
    /\ norm_twice = <<>>
    /\ norm_pc = "input"

SanitizeOnce ==
    /\ norm_pc = "input"
    /\ norm_once' = sanitize_biz_id(biz_in)
    /\ norm_pc' = "once"
    /\ UNCHANGED <<biz_in, norm_twice>>
    /\ UNCHANGED dbvars

SanitizeTwice ==
    /\ norm_pc = "once"
    /\ norm_twice' = sanitize_biz_id(norm_once)
    /\ norm_pc' = "twice"
    /\ UNCHANGED <<biz_in, norm_once>>
    /\ UNCHANGED dbvars

NextSanitize == SanitizeOnce \/ SanitizeTwice

SpecSanitize == InitSanitize /\ [][NextSanitize]_vars

----------------------------------------------------------------------------
(* Definitions shared by the properties *)

\* except Exception: reply = ...
GENERATION_FAILED_REPLY == "Sorry! Something went wrong on our side. Please try again."

\* response = await asyncio.to_thread(client.models.generate_content, ...)
AWAIT_LINE == 179

\* the last request was a chat turn whose user row was committed
TurnStoredUser == handled.op = "chat" /\ handled.user_id # 0

\* the {role, text} entries appended by turns of one (tenant, session) pair, in order
AppendedBy(pair) ==
    LET mine == SelectSeq(appended, LAMBDA e : e.pair = pair)
    IN  [i \in 1..Len(mine) |-> [role |-> mine[i].role, text |-> mine[i].text]]

SessionRows(id) == {m \in chat_messages : m.session_id = id}

----------------------------------------------------------------------------
(* C1 *)

\* C1: every chat turn that has ended with its inbound write done has stored
\* exactly one "user" row carrying the request text, then exactly one
\* "assistant" row with a larger id in the same session, and has returned a
\* reply equal to the content of that assistant row.
C1_TurnStoresBothRowsAndReplies ==
    TurnStoredUser =>
        LET id   == handled.effective_session_id
            mine == {m \in SessionRows(id) : m.id >= handled.user_id}
        IN  /\ \E u \in mine : /\ u.id = handled.user_id
                               /\ u.role = "user"
                               /\ u.content = handled.text
            /\ \E a \in mine : /\ a.role = "assistant"
                               /\ a.id > handled.user_id
                               /\ handled.reply = a.content
            /\ Cardinality(mine) = 2

----------------------------------------------------------------------------
(* C2 *)

\* C2: the stored name of a session is the first non-empty name that a turn
\* on its key supplied, and is unset (None or empty) as long as no turn on the
\* key has supplied one; so a name is set when the session is created or is
\* still unnamed, and no later turn changes it.
C2_NameIsFirstNonEmpty ==
    \A id \in DOMAIN chat_sessions :
        IF id \in DOMAIN first_name
        THEN chat_sessions[id] = first_name[id]
        ELSE ~Truthy(chat_sessions[id])

\* C2 witness: the turn just handled found its session named, supplied a
\* different non-empty name, and the stored name is still the one found, which
\* is the first one supplied on the key.
C2_Witness ==
    /\ handled.op = "chat"
    /\ Truthy(handled.name)
    /\ handled.loaded_name # Absent
    /\ Truthy(handled.loaded_name)
    /\ handled.name # handled.loaded_name
    /\ chat_sessions[handled.effective_session_id] = handled.loaded_name
    /\ first_name[handled.effective_session_id] = handled.loaded_name

----------------------------------------------------------------------------
(* C3 *)

\* C3: the window fetched by a chat turn holds min(6, N) rows of the N rows of
\* its session: rows of that session only, the highest ids of the session, in
\* increasing id order (oldest first).
C3_WindowIsNewestOldestFirst ==
    TurnStoredUser =>
        LET w    == handled.last_msgs
            rows == SessionRows(handled.effective_session_id)
        IN  /\ Len(w) = Min(LIMIT, Cardinality(rows))
            /\ \A i \in 1..Len(w) : w[i] \in rows
            /\ \A i, j \in 1..Len(w) : i < j => w[i].id < w[j].id
            /\ \A m \in rows :
                  \/ \E i \in 1..Len(w) : w[i] = m
                  \/ \A i \in 1..Len(w) : m.id < w[i].id

\* C3 witness: the session holds more than 6 rows and the window holds 6 of
\* them, the oldest row of the session left out.
C3_Witness ==
    /\ TurnStoredUser
    /\ Len(handled.last_msgs) = LIMIT
    /\ Cardinality(SessionRows(handled.effective_session_id)) > LIMIT
    /\ \E m \in SessionRows(handled.effective_session_id) :
          m.id < handled.last_msgs[1].id

----------------------------------------------------------------------------
(* C4 *)

\* C4: GET /history returns every entry appended to the session, in the order
\* appended, and the list alternates user, assistant, ..., one pair per turn.
C4_HistoryAlternatesPerTurn ==
    handled.op = "history" =>
        LET msgs == handled.messages
        IN  /\ msgs = AppendedBy(<<sanitize_biz_id(handled.biz_id), handled.session_id>>)
            /\ Len(msgs) % 2 = 0
            /\ \A i \in 1..Len(msgs) :
                  msgs[i].role = IF i % 2 = 1 THEN "user" ELSE "assistant"

----------------------------------------------------------------------------
(* C5 *)

\* C5: with a generation collaborator that raises on every call (the handler
\* makes no call that does not raise), every chat turn whose inbound write
\* was done ends without an exception, replies with the fixed apology text,
\* and its user row is in the store.
C5_FailedGenerationStillAnswers ==
    TurnStoredUser =>
        /\ handled.raised = "none"
        /\ handled.reply = GENERATION_FAILED_REPLY
        /\ \E u \in chat_messages : u.id = handled.user_id /\ u.role = "user"

----------------------------------------------------------------------------
(* C6 *)

----------------------------------------------------------------------------
(* C7 *)

\* C7: sanitize_biz_id returns a non-empty string of lower-case alphanumerics,
\* '-' and '_' for every input, and applying it to its own result changes
\* nothing.
C7_SanitizeSafeAndIdempotent ==
    norm_pc = "twice" =>
        /\ norm_once # <<>>
        /\ \A i \in 1..Len(norm_once) :
              norm_once[i] \in LowerLetters \cup Digits \cup {"-", "_"}
        /\ norm_twice = norm_once

----------------------------------------------------------------------------
(* C8 *)

\* C8: once a chat turn for a tenant has run, the system-instruction cache
\* holds an entry for that tenant.
C8_PromptCachedAfterFirstTurn ==
    TurnStoredUser =>
        /\ SYSTEM_PROMPT_CACHE # Unbound
        /\ handled.safe_biz \in DOMAIN SYSTEM_PROMPT_CACHE

----------------------------------------------------------------------------
(* C9 *)

----------------------------------------------------------------------------
(* C10 *)

\* C10: GET /history for (biz_id, session_id) returns exactly the entries
\* appended by chat turns whose (normalised tenant, session_id) pair is that
\* of the request: none of another pair, all of its own pair under any
\* spelling of the tenant.
C10_HistoryIsThatOfThePair ==
    handled.op = "history" =>
        handled.messages = AppendedBy(<<sanitize_biz_id(handled.biz_id), handled.session_id>>)

\* C10 witness: history asked under the spelling "A" returns the rows chat
\* turns stored under "a", while the other session, whose key differs only in
\* where the ':' of the pair falls, holds rows too.
C10_Witness ==
    /\ handled.op = "history"
    /\ handled.biz_id = <<"A">>
    /\ Len(handled.messages) >= 2
    /\ \E m \in chat_messages : m.session_id # handled.effective_session_id

====
